---- MODULE Spec2Model ----
(***************************************************************************)
(* XAX, a file extractor for CD-ROM XA data (xax.py).                      *)
(*                                                                         *)
(* The module models the sector parser (class Sector) as operators over    *)
(* byte sequences and the extraction driver (main and the __main__ block)  *)
(* as a state machine.  Bytes are integers 0..255, byte strings are        *)
(* sequences of bytes, and a Python slice s[a:b] is Slice(s, a, b).        *)
(* Paths are kept relative to target_dir, as sequences of components; a    *)
(* component produced by the format 02x is a pair of hexadecimal digits.   *)
(* The run is modelled with verbose = False, no signal delivered to the    *)
(* process, no failing file-system call, and a target directory that       *)
(* holds no output file when the run starts.                               *)
(***************************************************************************)
EXTENDS Integers, Sequences, FiniteSets, TLC

VARIABLES infile, pos, data, sector, n, dirs, files, pc, err, exitcode

vars == <<infile, pos, data, sector, n, dirs, files, pc, err, exitcode>>

(***************************************************************************)
(* Program constants.                                                      *)
(***************************************************************************)
SECTOR_SIZE == 2352

SYNC == <<0, 255, 255, 255, 255, 255, 255, 255, 255, 255, 255, 0>>

\* Python's None: a value outside every byte, flag and size of the program.
None == 0 - 1

(***************************************************************************)
(* Python primitives used by the program.                                  *)
(***************************************************************************)
Min(a, b) == IF a < b THEN a ELSE b

\* s[a:b] for 0 <= a, 0 <= b: the bytes at offsets a .. b-1 that exist.
Slice(s, a, b) == SubSeq(s, a + 1, Min(b, Len(s)))

\* s[a:]
SliceFrom(s, a) == SubSeq(s, a + 1, Len(s))

\* data.startswith(prefix)
StartsWith(s, prefix) ==
    /\ Len(s) >= Len(prefix)
    /\ \A i \in 1..Len(prefix) : s[i] = prefix[i]

\* x & y on non-negative integers
RECURSIVE BitAnd(_, _)
BitAnd(x, y) ==
    IF x = 0 \/ y = 0 THEN 0
    ELSE (x % 2) * (y % 2) + 2 * BitAnd(x \div 2, y \div 2)

\* bool(x) of an integer, as the integer Python's True / False equal
Bool(x) == IF x # 0 THEN 1 ELSE 0

\* the truth value of v in `if v:` for v an integer, a bool or None
Truthy(v) == v # None /\ v # 0

HexDigits == <<"0", "1", "2", "3", "4", "5", "6", "7",
               "8", "9", "a", "b", "c", "d", "e", "f">>

\* f'{v:02x}' for an integer v in 0..255 (None has no such format: the
\* callers raise TypeError for it)
Format02x(v) == <<HexDigits[(v \div 16) + 1], HexDigits[(v % 16) + 1]>>

(***************************************************************************)
(* The sector parser.                                                      *)
(***************************************************************************)
bcd_to_int(byte) == BitAnd(byte, 15) + ((byte \div 16) * 10)

\* The object state after the unconditional assignments of __init__.
SectorHeader(d) ==
    [raised     |-> "",
     minute     |-> bcd_to_int(d[13]),
     second     |-> bcd_to_int(d[14]),
     sector     |-> bcd_to_int(d[15]),
     mode       |-> d[16],
     checksum   |-> None,
     ecc        |-> None,
     file       |-> None,
     channel    |-> None,
     submode    |-> None,
     codinginfo |-> None,
     eor        |-> None,
     type_video |-> None,
     type_audio |-> None,
     type_data  |-> None,
     trigger    |-> None,
     form       |-> None,
     realtime   |-> None,
     eof        |-> None,
     data_size  |-> None,
     data       |-> None]

\* A constructor call that raises ValueError leaves no object behind.
Raise(msg) == [raised |-> msg]

\* A submode test that reads bit 4 where the program reads bit 5.
Mode2Form_Bit4(xa, d) ==
    IF BitAnd(xa.submode, 16) # 0 THEN
        [xa EXCEPT !.form = 2,
                   !.data_size = 2324,
                   !.data = Slice(d, 24, 2348),
                   !.checksum = SliceFrom(d, 2348)]
    ELSE
        [xa EXCEPT !.form = 1,
                   !.data_size = 2048,
                   !.data = Slice(d, 24, 2072),
                   !.checksum = Slice(d, 2072, 2076),
                   !.ecc = SliceFrom(d, 2076)]

\* __init__, lines 84-96: the form of a mode 2 sector and its payload
Mode2Form(xa, d) ==
    IF BitAnd(xa.submode, 32) # 0 THEN
        [xa EXCEPT !.form = 2,
                   !.data_size = 2324,
                   !.data = Slice(d, 24, 2348),
                   !.checksum = SliceFrom(d, 2348)]
    ELSE
        [xa EXCEPT !.form = 1,
                   !.data_size = 2048,
                   !.data = Slice(d, 24, 2072),
                   !.checksum = Slice(d, 2072, 2076),
                   !.ecc = SliceFrom(d, 2076)]

\* __init__, lines 73-99: the subheader of a mode 2 sector
Mode2(self, d) ==
    LET subhead == Slice(d, 16, 20)
        submode == subhead[3]
    IN  Mode2Form([self EXCEPT !.file = subhead[1],
                               !.channel = BitAnd(subhead[2], 31),
                               !.submode = submode,
                               !.eor = Bool(BitAnd(submode, 1)),
                               !.type_video = Bool(BitAnd(submode, 2)),
                               !.type_audio = Bool(BitAnd(submode, 4)),
                               !.type_data = Bool(BitAnd(submode, 8)),
                               !.trigger = Bool(BitAnd(submode, 16)),
                               !.realtime = Bool(BitAnd(submode, 64)),
                               !.eof = Bool(BitAnd(submode, 128)),
                               !.codinginfo = subhead[4]], d)

\* __init__, lines 42-101: the fields of a block of the right length and
\* sync, by its mode
SectorModes(d) ==
    LET self == SectorHeader(d) IN
    IF self.mode = 0 THEN
        [self EXCEPT !.data_size = 0, !.data = <<>>]
    ELSE IF self.mode = 1 THEN
        [self EXCEPT !.data_size = 2048,
                     !.data = Slice(d, 16, 2064),
                     !.checksum = Slice(d, 2064, 2068),
                     !.ecc = SliceFrom(d, 2076)]
    ELSE IF self.mode = 2 THEN Mode2(self, d)
    ELSE Raise("ValueError: unrecognised sector mode")

\* A constructor without the length check.
Sector_NoLength(d) ==
    IF ~StartsWith(d, SYNC) THEN Raise("ValueError: no sync value")
    ELSE SectorModes(d)

\* A constructor without the sync check.
Sector_NoSync(d) ==
    IF Len(d) # SECTOR_SIZE THEN Raise("ValueError: sector length")
    ELSE SectorModes(d)

\* Sector.__init__
Sector(d) ==
    IF Len(d) # SECTOR_SIZE THEN Raise("ValueError: sector length")
    ELSE IF ~StartsWith(d, SYNC) THEN Raise("ValueError: no sync value")
    ELSE SectorModes(d)

\* A filler test on the form bit alone.
is_filler_BitTest(self) ==
    IF self.mode = 0 THEN TRUE
    ELSE IF self.mode = 2 /\ self.form = 2 THEN TRUE
    ELSE FALSE

is_filler(self) ==
    IF self.mode = 0 THEN TRUE
    ELSE IF self.mode = 2 /\ self.form = 2 /\ self.submode = 32 THEN TRUE
    ELSE FALSE

(***************************************************************************)
(* The extraction driver.                                                  *)
(***************************************************************************)
\* A type name that tries audio before video.
TypeName_AudioFirst(s) ==
    IF Truthy(s.type_audio) THEN "audio"
    ELSE IF Truthy(s.type_video) THEN "video"
    ELSE IF Truthy(s.type_data) THEN "data"
    ELSE "untyped"

\* Lines 151-157 of main: the type name, by the truth of the type flags.
TypeName(s) ==
    IF Truthy(s.type_video) THEN "video"
    ELSE IF Truthy(s.type_audio) THEN "audio"
    ELSE IF Truthy(s.type_data) THEN "data"
    ELSE "untyped"

\* os.path.join(target_dir, typename, f'{sector.file:02x}'), relative to
\* target_dir.
DirName(s) == <<TypeName(s), Format02x(s.file)>>

\* os.path.join(dirname, f'{sector.channel:02x}')
PathOf(s) == Append(DirName(s), Format02x(s.channel))

\* os.makedirs(dirname, exist_ok=True): the directory and its missing parents.
MakeDirs(ds, dirname) == ds \cup {SubSeq(dirname, 1, k) : k \in 0..Len(dirname)}

\* A write that opens the file with 'wb'.
AppendFile_Truncate(fs, path, payload) ==
    IF path \in DOMAIN fs
    THEN [fs EXCEPT ![path] = payload]
    ELSE fs @@ (path :> payload)

\* with open(path, 'ab') as fp: fp.write(payload)
AppendFile(fs, path, payload) ==
    IF path \in DOMAIN fs
    THEN [fs EXCEPT ![path] = @ \o payload]
    ELSE fs @@ (path :> payload)

\* infile.read(SECTOR_SIZE) at offset pos of a buffered binary stream: the
\* next SECTOR_SIZE bytes, or what is left of the stream.
Read(f, p) == Slice(f, p, p + SECTOR_SIZE)

\* No Sector object has been constructed yet.
NoSector == [raised |-> "unset"]

\* main, lines 141-142
MainStart ==
    /\ pc = "start"
    /\ dirs' = MakeDirs(dirs, <<>>)
    /\ n' = 0
    /\ pc' = "loop"
    /\ UNCHANGED <<infile, pos, data, sector, files, err, exitcode>>

\* main, lines 144-146: the read returns b'' and the loop ends
MainBreak ==
    /\ pc = "loop"
    /\ Read(infile, pos) = <<>>
    /\ data' = <<>>
    /\ pc' = "returned"
    /\ UNCHANGED <<infile, pos, sector, n, dirs, files, err, exitcode>>

\* A driver that drops a block that fails to parse and reads on.
MainSectorRaise_Resync ==
    /\ pc = "loop"
    /\ data' = Read(infile, pos)
    /\ data' # <<>>
    /\ pos' = pos + Len(data')
    /\ Sector(data').raised # ""
    /\ UNCHANGED <<infile, sector, n, dirs, files, pc, err, exitcode>>

\* main, lines 144-147: Sector(data) raises ValueError
MainSectorRaise ==
    /\ pc = "loop"
    /\ data' = Read(infile, pos)
    /\ data' # <<>>
    /\ pos' = pos + Len(data')
    /\ err' = Sector(data').raised
    /\ err' # ""
    /\ pc' = "raised"
    /\ UNCHANGED <<infile, sector, n, dirs, files, exitcode>>

\* main, lines 144-162: the sector is constructed, and the format 02x of
\* sector.file, which is None, raises TypeError before any directory or
\* file is touched
MainFormatRaise ==
    /\ pc = "loop"
    /\ data' = Read(infile, pos)
    /\ data' # <<>>
    /\ pos' = pos + Len(data')
    /\ sector' = Sector(data')
    /\ sector'.raised = ""
    /\ sector'.file = None
    /\ err' = "TypeError: unsupported format string passed to NoneType"
    /\ pc' = "raised"
    /\ UNCHANGED <<infile, n, dirs, files, exitcode>>

\* An iteration that does not write filler sectors.
MainWrite_SkipFiller ==
    /\ pc = "loop"
    /\ data' = Read(infile, pos)
    /\ data' # <<>>
    /\ pos' = pos + Len(data')
    /\ sector' = Sector(data')
    /\ sector'.raised = ""
    /\ sector'.file # None
    /\ dirs' = MakeDirs(dirs, DirName(sector'))
    /\ files' = IF is_filler(sector') THEN files
                ELSE AppendFile(files, PathOf(sector'), sector'.data)
    /\ n' = n + 1
    /\ UNCHANGED <<infile, pc, err, exitcode>>

\* An iteration that leaves the sector index alone.
MainWrite_NoIncrement ==
    /\ pc = "loop"
    /\ data' = Read(infile, pos)
    /\ data' # <<>>
    /\ pos' = pos + Len(data')
    /\ sector' = Sector(data')
    /\ sector'.raised = ""
    /\ sector'.file # None
    /\ dirs' = MakeDirs(dirs, DirName(sector'))
    /\ files' = AppendFile(files, PathOf(sector'), sector'.data)
    /\ UNCHANGED <<infile, n, pc, err, exitcode>>

\* main, lines 144-169: one whole iteration that writes the payload
MainWrite ==
    /\ pc = "loop"
    /\ data' = Read(infile, pos)
    /\ data' # <<>>
    /\ pos' = pos + Len(data')
    /\ sector' = Sector(data')
    /\ sector'.raised = ""
    /\ sector'.file # None
    /\ dirs' = MakeDirs(dirs, DirName(sector'))
    /\ files' = AppendFile(files, PathOf(sector'), sector'.data)
    /\ n' = n + 1
    /\ UNCHANGED <<infile, pc, err, exitcode>>

\* __main__, lines 188-199: main returned; sys.exit(0)
ExitOK ==
    /\ pc = "returned"
    /\ exitcode' = 0
    /\ pc' = "exited"
    /\ UNCHANGED <<infile, pos, data, sector, n, dirs, files, err>>

\* __main__, lines 194-198: print(err); sys.exit(1)
ExitError ==
    /\ pc = "raised"
    /\ exitcode' = 1
    /\ pc' = "exited"
    /\ UNCHANGED <<infile, pos, data, sector, n, dirs, files, err>>

(***************************************************************************)
(* Input streams.                                                          *)
(***************************************************************************)
\* The largest number of whole blocks in an input stream.
MaxBlocks == 2

\* A 2352-byte block: the given 12 sync bytes, the address 00:02:27 in BCD,
\* the mode byte, the subheader (file, channel byte, submode, coding
\* information) and its copy, and a body whose byte at offset o is
\* (seed + o) % 256, so that slices taken at different offsets differ.
Block(sync, mode, file, chanbyte, submode, seed) ==
    [i \in 1..SECTOR_SIZE |->
        LET o == i - 1 IN
        IF o < 12 THEN sync[i]
        ELSE IF o = 12 THEN 0
        ELSE IF o = 13 THEN 2
        ELSE IF o = 14 THEN 39
        ELSE IF o = 15 THEN mode
        ELSE IF o \in {16, 20} THEN file
        ELSE IF o \in {17, 21} THEN chanbyte
        ELSE IF o \in {18, 22} THEN submode
        ELSE IF o \in {19, 23} THEN seed
        ELSE (seed + o) % 256]

BadSync == <<0, 255, 255, 255, 255, 255, 255, 255, 255, 255, 255, 1>>

\* The blocks the driver's input streams are made of: mode 2 with every
\* combination of the three type bits, form 1 and form 2, filler, channel
\* bytes with high bits set; mode 0; mode 1; an unknown mode; a bad sync.
Kinds ==
    << Block(SYNC, 2, 1, 31, 2, 1),
       Block(SYNC, 2, 1, 63, 46, 2),
       Block(SYNC, 2, 1, 31, 4, 3),
       Block(SYNC, 2, 0, 225, 12, 4),
       Block(SYNC, 2, 255, 0, 8, 5),
       Block(SYNC, 2, 0, 32, 32, 6),
       Block(SYNC, 2, 1, 31, 138, 7),
       Block(SYNC, 2, 16, 10, 6, 8),
       Block(SYNC, 0, 0, 0, 0, 10),
       Block(SYNC, 1, 1, 31, 2, 11),
       Block(SYNC, 3, 1, 31, 2, 12),
       Block(BadSync, 2, 1, 31, 2, 13) >>

\* The lengths of the partial block that may end a stream (0: none).
TailLens == {0, 1000}

RECURSIVE Concat(_, _)
Concat(ks, i) ==
    IF i > Len(ks) THEN <<>> ELSE Kinds[ks[i]] \o Concat(ks, i + 1)

\* The streams of up to MaxBlocks blocks of the kinds ids, with or without
\* a partial block at the end.
StreamsOf(ids) ==
    { Concat(ks, 1) \o SubSeq(Kinds[1], 1, t) :
        ks \in UNION {[1..k -> ids] : k \in 0..MaxBlocks},
        t \in TailLens }

Streams == StreamsOf(1..Len(Kinds))

\* The kinds of the streams the runs to completion are checked on: two
\* sectors of one destination, filler, mode 0, mode 1, an unknown mode, a
\* bad sync.
FairKinds == {1, 2, 6, 9, 10, 11, 12}

Init ==
    /\ infile \in Streams
    /\ pos = 0
    /\ data = <<>>
    /\ sector = NoSector
    /\ n = None
    /\ dirs = {}
    /\ files = <<>>
    /\ pc = "start"
    /\ err = ""
    /\ exitcode = None

Next ==
    \/ MainStart
    \/ MainBreak
    \/ MainSectorRaise
    \/ MainFormatRaise
    \/ MainWrite
    \/ ExitOK
    \/ ExitError

Spec == Init /\ [][Next]_vars

InitFair ==
    /\ infile \in StreamsOf(FairKinds)
    /\ pos = 0
    /\ data = <<>>
    /\ sector = NoSector
    /\ n = None
    /\ dirs = {}
    /\ files = <<>>
    /\ pc = "start"
    /\ err = ""
    /\ exitcode = None

\* The interpreter runs the program to its exit: a step that is enabled is
\* eventually taken.
FairSpec == InitFair /\ [][Next]_vars /\ WF_vars(Next)

(***************************************************************************)
(* The parser on its own: one constructor call on one block.               *)
(***************************************************************************)
\* Sector(data) returns an object
Construct ==
    /\ pc = "construct"
    /\ LET s == Sector(data)
       IN  /\ s.raised = ""
           /\ sector' = s
    /\ pc' = "constructed"
    /\ UNCHANGED <<infile, pos, data, n, dirs, files, err, exitcode>>

\* Sector(data) raises ValueError
ConstructRaise ==
    /\ pc = "construct"
    /\ LET s == Sector(data)
       IN  /\ s.raised # ""
           /\ err' = s.raised
    /\ pc' = "construct_raised"
    /\ UNCHANGED <<infile, pos, data, sector, n, dirs, files, exitcode>>

\* SYNC with the byte at position p (1..12) changed
SyncBut(p) == [SYNC EXCEPT ![p] = (@ + 1) % 256]

\* The blocks given to the parser: mode 2 with every submode byte, every
\* mode byte, a sync pattern wrong in any one of its 12 bytes around an
\* otherwise well-formed mode 0, 1 or 2 block, and byte strings of other
\* lengths cut from (or extending) a well-formed block.
ParserInputs ==
    {Block(SYNC, 2, (3 * sm) % 256, 255 - sm, sm, sm) : sm \in 0..255}
    \cup {Block(SYNC, m, 1, 31, 2, m) : m \in 0..255}
    \cup {Block(SyncBut(p), m, 1, 31, 2, p) : p \in 1..12, m \in 0..2}
    \cup {SubSeq(Block(SYNC, 2, 1, 31, 2, 1) \o <<7, 7>>, 1, l) :
            l \in {0, 1, 11, 12, 15, 16, 24, 2072, 2351, 2353, 2354}}

InitParse ==
    /\ data \in ParserInputs
    /\ infile = <<>>
    /\ pos = 0
    /\ sector = NoSector
    /\ n = None
    /\ dirs = {}
    /\ files = <<>>
    /\ pc = "construct"
    /\ err = ""
    /\ exitcode = None

NextParse ==
    \/ Construct
    \/ ConstructRaise

ParseSpec == InitParse /\ [][NextParse]_vars

(***************************************************************************)
(* Properties of the parser.                                               *)
(***************************************************************************)
\* The block is exactly 2352 bytes long, begins with 00 FF x10 00, and its
\* byte 15 is 0, 1 or 2.
WellFormed(d) ==
    /\ Len(d) = 2352
    /\ d[1] = 0
    /\ \A i \in 2..11 : d[i] = 255
    /\ d[12] = 0
    /\ d[16] \in {0, 1, 2}

\* Bit k of byte b is set.
BitSet(b, k) == (b \div (2 ^ k)) % 2 = 1

\* C6: the payload of a parsed sector is fixed by mode and form: empty for
\* mode 0; block bytes [16, 2064) for mode 1; [24, 2072) for mode 2 with
\* submode bit 5 clear; [24, 2348) for mode 2 with submode bit 5 set; and
\* data_size is the length of the payload.
C6_PayloadRange ==
    pc = "constructed" =>
        /\ data[16] = 0 => sector.data = <<>>
        /\ data[16] = 1 =>
              /\ Len(sector.data) = 2048
              /\ \A o \in 16..2063 : sector.data[o - 16 + 1] = data[o + 1]
        /\ data[16] = 2 /\ ~BitSet(data[19], 5) =>
              /\ Len(sector.data) = 2048
              /\ \A o \in 24..2071 : sector.data[o - 24 + 1] = data[o + 1]
        /\ data[16] = 2 /\ BitSet(data[19], 5) =>
              /\ Len(sector.data) = 2324
              /\ \A o \in 24..2347 : sector.data[o - 24 + 1] = data[o + 1]
        /\ sector.data_size = Len(sector.data)

C6_Witness ==
    /\ pc = "constructed"
    /\ data[16] = 2
    /\ BitSet(data[19], 5)
    /\ Len(sector.data) = 2324
    /\ sector.data[1] # sector.data[2]

\* C7: the constructor returns an object exactly for the well-formed
\* blocks, and raises for every other block.
C7_SucceedsIffWellFormed ==
    /\ pc = "constructed" => WellFormed(data) /\ sector.raised = ""
    /\ pc = "construct_raised" => ~WellFormed(data) /\ sector = NoSector

\* A block whose only defect is its last sync byte is refused.
C7_Witness ==
    /\ pc = "construct_raised"
    /\ Len(data) = 2352
    /\ data[16] = 2
    /\ data[12] # 0
    /\ \A i \in 2..11 : data[i] = 255

\* C8: is_filler holds exactly for mode 0 and for mode 2 with the submode
\* byte equal to 32.
C8_IsFiller ==
    pc = "constructed" =>
        (is_filler(sector) <=>
            (data[16] = 0 \/ (data[16] = 2 /\ data[19] = 32)))

\* A form 2 sector with one more submode bit set is not filler.
C8_Witness ==
    /\ pc = "constructed"
    /\ data[16] = 2
    /\ data[19] = 32 + 4
    /\ sector.form = 2
    /\ ~is_filler(sector)

(***************************************************************************)
(* Properties of the driver.                                               *)
(***************************************************************************)
\* Block number i (from 0) of the stream f: its bytes [2352 i, 2352 (i+1)).
BlockAt(f, i) == SubSeq(f, 2352 * i + 1, Min(2352 * (i + 1), Len(f)))

\* The number of sectors processed so far.
Processed == IF n = None THEN 0 ELSE n

LowerHex == <<"0", "1", "2", "3", "4", "5", "6", "7",
              "8", "9", "a", "b", "c", "d", "e", "f">>

\* The number a two-digit lowercase hexadecimal path component denotes.
HexVal(h) ==
    16 * (CHOOSE i \in 0..15 : LowerHex[i + 1] = h[1])
       + (CHOOSE i \in 0..15 : LowerHex[i + 1] = h[2])

\* The (type, file, channel) an output path stands for.
Triple(p) == <<p[1], HexVal(p[2]), HexVal(p[3])>>

\* The type name of a submode byte: video, else audio, else data.
TypeOfBits(sm) ==
    IF BitSet(sm, 1) THEN "video"
    ELSE IF BitSet(sm, 2) THEN "audio"
    ELSE IF BitSet(sm, 3) THEN "data"
    ELSE "untyped"

\* The destination of a mode 2 block.
Dest(b) == <<TypeOfBits(b[19]), b[17], b[18] % 32>>

\* The output files of a destination, and the content found there.
FilesOf(fs, t) == {p \in DOMAIN fs : Triple(p) = t}

Content(fs, t) ==
    IF FilesOf(fs, t) = {} THEN <<>>
    ELSE fs[CHOOSE p \in FilesOf(fs, t) : TRUE]

\* The payloads, in input order, of the blocks 0 .. k-1 routed to t.
RECURSIVE PayloadsTo(_, _)
PayloadsTo(t, k) ==
    IF k = 0 THEN <<>>
    ELSE LET b == BlockAt(infile, k - 1)
         IN  PayloadsTo(t, k - 1)
                \o (IF b[16] = 2 /\ Dest(b) = t THEN Sector(b).data ELSE <<>>)

\* The destinations in use: of the files present and of the blocks processed.
Destinations ==
    {Triple(p) : p \in DOMAIN files}
        \cup {Dest(BlockAt(infile, i)) : i \in 0..(Processed - 1)}

\* Every output file holds the payloads routed to it so far, in input order.
RoundTrip ==
    \A t \in Destinations :
        /\ Cardinality(FilesOf(files, t)) <= 1
        /\ Content(files, t) = PayloadsTo(t, Processed)

\* C1: at every point of the run, each output file holds exactly the
\* concatenation, in input order, of the payloads of the sectors processed
\* so far that were routed to its (type, file, channel).
C1_RoundTrip == RoundTrip /\ Processed * 2352 <= Len(infile)

\* Two sectors of different forms were appended to the same file.
C1_Witness ==
    /\ Processed = 2
    /\ Len(Content(files, <<"video", 1, 31>>)) = 2048 + 2324

\* The block the next iteration reads.
NextBlock == BlockAt(infile, Processed)

\* C2: a block that fails to parse stops the run with exit code 1: nothing
\* is written for it, no later block is read, and the output files hold
\* what the sectors before it wrote.
C2_DecodeErrorFatal ==
    /\ [][(pc = "loop" /\ NextBlock # <<>> /\ ~WellFormed(NextBlock)) =>
            /\ pc' = "raised"
            /\ data' = NextBlock
            /\ files' = files /\ dirs' = dirs /\ n' = n]_vars
    /\ [][pc = "raised" =>
            /\ pc' = "exited" /\ exitcode' = 1
            /\ pos' = pos /\ files' = files /\ dirs' = dirs /\ n' = n]_vars
    /\ [][pc # "exited"]_vars
    /\ [](pc \in {"raised", "exited"} /\ ~WellFormed(data) =>
            /\ data = NextBlock
            /\ pos <= 2352 * (n + 1)
            /\ RoundTrip)
    /\ (pc = "loop" /\ NextBlock # <<>> /\ ~WellFormed(NextBlock))
          ~> (pc = "exited" /\ exitcode = 1)

\* A bad sync after one written sector: exit code 1, the first file kept.
C2_Witness ==
    /\ pc = "exited"
    /\ exitcode = 1
    /\ err = "ValueError: no sync value"
    /\ n = 1
    /\ DOMAIN files # {}

\* C3: a stream whose length is not a multiple of 2352 never ends cleanly;
\* the read of its partial last block raises the length error, and writes
\* nothing.
C3_Truncation ==
    /\ [](Len(infile) % 2352 # 0 => pc # "returned" /\ exitcode # 0)
    /\ [][(pc = "loop" /\ 0 < Len(NextBlock) /\ Len(NextBlock) < 2352) =>
            /\ data' = NextBlock
            /\ pos' = Len(infile)
            /\ pc' = "raised"
            /\ err' = "ValueError: sector length"
            /\ files' = files /\ dirs' = dirs /\ n' = n]_vars

\* A partial block after one written sector raised the length error.
C3_Witness ==
    /\ pc = "exited"
    /\ exitcode = 1
    /\ err = "ValueError: sector length"
    /\ 0 < Len(data) /\ Len(data) < 2352
    /\ n = 1
    /\ DOMAIN files # {}

\* The output paths a step creates or changes.
Changed == {q \in DOMAIN files' : q \notin DOMAIN files \/ files'[q] # files[q]}

\* C4: a processed mode 2 sector is written to the one file whose path is
\* type/file/channel with the type chosen video, else audio, else data,
\* else untyped, the file of block byte 16 and the channel of the low five
\* bits of block byte 17, each as two lowercase hexadecimal digits.
C4_Routing ==
    [][(pc = "loop" /\ pc' = "loop" /\ data'[16] = 2) =>
         /\ Changed # {}
         /\ \A q \in Changed :
               /\ Len(q) = 3 /\ Len(q[2]) = 2 /\ Len(q[3]) = 2
               /\ q[2][1] \in {LowerHex[i] : i \in 1..16}
               /\ q[2][2] \in {LowerHex[i] : i \in 1..16}
               /\ q[3][1] \in {"0", "1"}
               /\ q[3][2] \in {LowerHex[i] : i \in 1..16}
               /\ Triple(q) = Dest(data')
               /\ Triple(q)[3] \in 0..31]_vars

\* A sector with all three type bits set and channel byte 3f went to
\* video/01/1f.
C4_Witness ==
    /\ pc = "loop"
    /\ Len(data) = 2352
    /\ data[18] = 63
    /\ data[19] = 46
    /\ <<"video", <<"0", "1">>, <<"1", "f">>>> \in DOMAIN files

\* C5: a parsed mode 0 or mode 1 sector is written to a file of type
\* untyped, the sector index goes up by one, and the loop goes on.
C5_Mode01Written ==
    [][(pc = "loop" /\ WellFormed(NextBlock) /\ NextBlock[16] \in {0, 1}) =>
         /\ pc' = "loop"
         /\ n' = n + 1
         /\ \E q \in DOMAIN files' :
               /\ q[1] = "untyped"
               /\ files'[q] = (IF q \in DOMAIN files THEN files[q] ELSE <<>>)
                                 \o Sector(NextBlock).data]_vars

\* Every block of the stream is a well-formed mode 2 block.
AllMode2 ==
    /\ Len(infile) % 2352 = 0
    /\ \A i \in 0..((Len(infile) \div 2352) - 1) :
          WellFormed(BlockAt(infile, i)) /\ BlockAt(infile, i)[16] = 2

\* C9: on a stream of k well-formed mode 2 blocks the run ends with exit
\* code 0 and sector index k, having processed block after block in stream
\* order; on the empty stream it creates nothing but the root directory.
C9_CleanTermination ==
    /\ (pc = "start" /\ AllMode2)
          ~> (/\ pc = "exited" /\ exitcode = 0
              /\ n = Len(infile) \div 2352
              /\ pos = Len(infile)
              /\ Len(infile) = 0 => files = <<>> /\ dirs = {<<>>})
    /\ [][(pc = "loop" /\ n' # n) =>
            n' = n + 1 /\ data' = BlockAt(infile, n)]_vars
    /\ [](AllMode2 => pc # "raised" /\ exitcode # 1)
    /\ [](AllMode2 /\ pc = "returned" => n = Len(infile) \div 2352)

\* Two mode 2 sectors were processed and the run ended cleanly.
C9_Witness ==
    /\ pc = "exited"
    /\ exitcode = 0
    /\ n = 2
    /\ Len(infile) = 2 * 2352

\* xs is a prefix of ys.
IsPrefix(xs, ys) ==
    /\ Len(xs) <= Len(ys)
    /\ \A i \in 1..Len(xs) : xs[i] = ys[i]

\* C10: a step leaves every output file in place with its old content as a
\* prefix of the new one, and a step that processes a sector changes only
\* the file of that sector's (type, file, channel).
C10_Frame ==
    [][/\ \A q \in DOMAIN files :
             q \in DOMAIN files' /\ IsPrefix(files[q], files'[q])
       /\ Cardinality(Changed) <= 1
       /\ Changed # {} =>
             /\ pc = "loop" /\ n' = n + 1
             /\ \A q \in Changed : Triple(q) = Dest(data')
       /\ (n' # n /\ pc = "loop") => Changed # {}]_vars

\* The second sector went to a file of its own, next to the first one.
C10_Witness ==
    /\ n = 2
    /\ Cardinality(DOMAIN files) = 2

====
